---- MODULE Spec2Model ----
(***************************************************************************)
(* Model of hack/tags/tags.go: the release-tagging helper.  One invocation *)
(* of main either cuts a GA release (resetDev, then newRelease) or a       *)
(* release candidate (bumpDev).  The filesystem holds the two marker       *)
(* files; every system call on them may fail.  Strings are sequences of    *)
(* one-character strings, and Go's 64-bit int is a sign and a sequence of  *)
(* decimal digits, so that strconv.Atoi's range check and the wrap-around  *)
(* of ver + 1 are exact.                                                   *)
(***************************************************************************)
EXTENDS Integers, Sequences, FiniteSets, TLC

VARIABLES
    devFile,     \* content of hack/DEV_BUILD_VERSION.yaml, or Absent
    newFile,     \* content of hack/NEW_BUILD_VERSION, or Absent
    release,     \* flag -release
    tag,         \* flag -tag
    pc,          \* position of main
    caller,      \* who called saveDev: "resetDev" or "bumpDev"
    byFile,      \* getTag: bytes read from the dev marker
    version,     \* the string being handled (getTag's result, then the new version)
    buf,         \* the bufio.Writer's buffered bytes
    handles,     \* open file handles of the process
    result,      \* what main printed last: "none", "Succeeded", "error", "usage"
    errKind,     \* the error reported: "none", "io", "yaml", "InvalidVersionFormat"
    failedAt,    \* the step whose failure ended the invocation, or "none"
    ioFailed,    \* history: some system call of this invocation failed
    startDev,    \* history: devFile when the invocation started
    startNew,    \* history: newFile when the invocation started
    wrote,       \* history: files opened for writing by this invocation
    newVal,      \* incrementDev's newVersion (the int), 1 for the baseline
    devWritten,  \* history: the int value saveDev has fully written, or NoVal
    devReset,    \* history: resetDev returned nil in this invocation
    runs,        \* history: number of invocations started
    allOk,       \* history: every finished invocation printed Succeeded
    expect       \* history: the dev counter the invocations so far should give

vars == <<devFile, newFile, release, tag, pc, caller, byFile, version, buf,
          handles, result, errKind, failedAt, ioFailed, startDev, startNew,
          wrote, newVal, devWritten, devReset, runs, allOk, expect>>

----------------------------------------------------------------------------
(* Bounds *)

\* number of invocations of the program in one behaviour
MaxRuns == 3

\* size of the bufio.Writer buffer (4096 in Go's bufio), scaled down; every
\* dev marker document fits in it, LongTag does not
BufSize == 36

----------------------------------------------------------------------------
(* Strings *)

\* a marker file that does not exist; no file content equals it
Absent == <<"<absent>">>

\* no int value
NoVal == [neg |-> FALSE, mag |-> <<>>]

DigitChars == <<"0", "1", "2", "3", "4", "5", "6", "7", "8", "9">>

IsDigit(c) == \E i \in 1..10 : DigitChars[i] = c

DigitVal(c) == (CHOOSE i \in 1..10 : DigitChars[i] = c) - 1

\* strings.Split(s, ".")
RECURSIVE SplitFrom(_, _, _)
SplitFrom(s, i, cur) ==
    IF i > Len(s) THEN <<cur>>
    ELSE IF s[i] = "." THEN <<cur>> \o SplitFrom(s, i + 1, <<>>)
    ELSE SplitFrom(s, i + 1, Append(cur, s[i]))

Split(s) == SplitFrom(s, 1, <<>>)

IsPrefix(p, s) == Len(p) <= Len(s) /\ SubSeq(s, 1, Len(p)) = p

----------------------------------------------------------------------------
(* Go's int: [neg |-> BOOLEAN, mag |-> digits without leading zeros] *)

MaxIntMag == <<9,2,2,3,3,7,2,0,3,6,8,5,4,7,7,5,8,0,7>>
MinIntMag == <<9,2,2,3,3,7,2,0,3,6,8,5,4,7,7,5,8,0,8>>

RECURSIVE StripZeros(_)
StripZeros(ds) ==
    IF Len(ds) > 1 /\ ds[1] = 0 THEN StripZeros(Tail(ds)) ELSE ds

RECURSIVE LexLess(_, _)
LexLess(a, b) ==
    IF a = <<>> THEN FALSE
    ELSE IF a[1] # b[1] THEN a[1] < b[1]
    ELSE LexLess(Tail(a), Tail(b))

\* a < b for two magnitudes without leading zeros
MagLess(a, b) ==
    IF Len(a) # Len(b) THEN Len(a) < Len(b) ELSE LexLess(a, b)

\* magnitude + 1
RECURSIVE IncMag(_)
IncMag(ds) ==
    IF ds = <<>> THEN <<1>>
    ELSE IF ds[Len(ds)] < 9
         THEN [ds EXCEPT ![Len(ds)] = @ + 1]
         ELSE Append(IncMag(SubSeq(ds, 1, Len(ds) - 1)), 0)

\* magnitude - 1, for a magnitude of at least 1
RECURSIVE DecMagRaw(_)
DecMagRaw(ds) ==
    IF ds[Len(ds)] > 0
    THEN [ds EXCEPT ![Len(ds)] = @ - 1]
    ELSE Append(DecMagRaw(SubSeq(ds, 1, Len(ds) - 1)), 9)

DecMag(ds) == StripZeros(DecMagRaw(ds))

IntOf(n, m) == [neg |-> n /\ m # <<0>>, mag |-> m]

One == IntOf(FALSE, <<1>>)

\* the mathematical successor, without any width
MathInc(v) ==
    IF v.neg THEN IntOf(TRUE, DecMag(v.mag)) ELSE IntOf(FALSE, IncMag(v.mag))

\* ver + 1 on a 64-bit int: the largest int wraps to the smallest
AddOne(v) ==
    IF ~v.neg /\ v.mag = MaxIntMag THEN IntOf(TRUE, MinIntMag) ELSE MathInc(v)

\* strconv.Atoi: optional sign, then one or more decimal digits, in range
Atoi(s) ==
    LET signed == s # <<>> /\ s[1] \in {"+", "-"}
        neg    == signed /\ s[1] = "-"
        body   == IF signed THEN Tail(s) ELSE s
        mag    == StripZeros([i \in 1..Len(body) |-> DigitVal(body[i])])
        limit  == IF neg THEN MinIntMag ELSE MaxIntMag
    IN  IF body = <<>> \/ \E i \in 1..Len(body) : ~IsDigit(body[i])
        THEN [ok |-> FALSE, val |-> NoVal]
        ELSE IF MagLess(limit, mag)
        THEN [ok |-> FALSE, val |-> NoVal]
        ELSE [ok |-> TRUE, val |-> IntOf(neg, mag)]

\* fmt's %d
FormatInt(v) ==
    (IF v.neg THEN <<"-">> ELSE <<>>) \o [i \in 1..Len(v.mag) |-> DigitChars[v.mag[i] + 1]]

----------------------------------------------------------------------------
(* Constants of the program *)

DefaultTagVersion == <<"d", "e", "v", ".", "1">>

NumberOfSemVerSeparators == 3

NumberOfSeparatorsInDevTag == 2

DevFullPathFilename == "hack/DEV_BUILD_VERSION.yaml"

NewVersionFullPathFilename == "hack/NEW_BUILD_VERSION"

----------------------------------------------------------------------------
(* The pure functions *)

Err == [ok |-> FALSE, str |-> <<>>, val |-> NoVal]

incrementRelease(t) ==
    LET items == Split(t)
    IN  IF Len(items) # NumberOfSemVerSeparators THEN Err
        ELSE LET ver == Atoi(items[2])
             IN  IF ~ver.ok THEN Err
                 ELSE [ok  |-> TRUE,
                       str |-> items[1] \o <<".">> \o FormatInt(AddOne(ver.val))
                                        \o <<".", "0">>,
                       val |-> AddOne(ver.val)]

incrementDev(t) ==
    LET items == Split(t)
    IN  IF Len(items) # NumberOfSeparatorsInDevTag THEN Err
        ELSE LET ver == Atoi(items[2])
             IN  IF ~ver.ok THEN Err
                 ELSE [ok  |-> TRUE,
                       str |-> <<"d", "e", "v", ".">> \o FormatInt(AddOne(ver.val)),
                       val |-> AddOne(ver.val)]

VersionKey == <<"v", "e", "r", "s", "i", "o", "n", ":">>

\* characters of the model's alphabet that end or structure a YAML scalar
YamlSpecial == {":", " ", "\n", "{", "}"}

\* yaml.Marshal(&Version{Version: t}) for a tag that needs no quoting
yamlMarshal(t) == VersionKey \o <<" ">> \o t \o <<"\n">>

RECURSIVE StripSpaces(_)
StripSpaces(s) ==
    IF s # <<>> /\ s[1] = " " THEN StripSpaces(Tail(s)) ELSE s

\* yaml.Unmarshal(b, &Version{}) on a document of at most one line: an empty
\* document and a null value leave Version.Version empty, a mapping with
\* the key version gives its plain scalar, anything else is an error
yamlUnmarshal(b) ==
    LET body == IF b # <<>> /\ b[Len(b)] = "\n" THEN SubSeq(b, 1, Len(b) - 1) ELSE b
        rest == SubSeq(body, Len(VersionKey) + 1, Len(body))
        scalar == StripSpaces(rest)
    IN  IF body = <<>> THEN [ok |-> TRUE, version |-> <<>>]
        ELSE IF ~IsPrefix(VersionKey, body) THEN [ok |-> FALSE, version |-> <<>>]
        ELSE IF rest = <<>> THEN [ok |-> TRUE, version |-> <<>>]
        ELSE IF rest[1] # " " THEN [ok |-> FALSE, version |-> <<>>]
        ELSE IF \E i \in 1..Len(scalar) : scalar[i] \in YamlSpecial
             THEN [ok |-> FALSE, version |-> <<>>]
        ELSE [ok |-> TRUE, version |-> scalar]

\* saveDev writing the tag itself, as saveRelease does with its version
SaveDevDataRaw(t) == t

\* the bytes saveDev writes
SaveDevData(t) == yamlMarshal(t)

\* the bytes saveRelease writes
SaveReleaseData(v) == v

----------------------------------------------------------------------------
(* Inputs *)

Str5 == <<"5">>

MaxIntStr == FormatInt(IntOf(FALSE, MaxIntMag))

\* one digit more than the largest int
OverIntStr == FormatInt(IntOf(FALSE, MinIntMag))

Dev(n) == <<"d", "e", "v", ".">> \o n

\* a MAJOR field longer than the bufio buffer
LongMajor == [i \in 1..(BufSize + 1) |-> "7"]

\* what the dev marker file may hold when the program is first run
InitDevFiles ==
    { Absent,
      <<>>,
      <<"{">>,
      yamlMarshal(Dev(Str5)),
      yamlMarshal(Dev(<<"0">>)),
      yamlMarshal(Dev(MaxIntStr)),
      yamlMarshal(Dev(OverIntStr)),
      yamlMarshal(Dev(<<"-", "3">>)),
      yamlMarshal(Dev(<<"x">>)),
      yamlMarshal(<<"d", "e", "v">>),
      yamlMarshal(<<"1", ".", "2", ".", "3">>) }

\* what the new-version marker file may hold when the program is first run
InitNewFiles == { Absent, <<"1", ".", "2", ".", "0">> }

\* the values of -tag with -release; the empty tag is the flag's default
Tags ==
    { <<>>,
      <<"1", ".", "2", ".", "3">>,
      <<"1", ".", "2">>,
      <<"1", ".", "x", ".", "3">>,
      <<"1", ".", "2", ".", "x">>,
      <<"1", ".">> \o MaxIntStr \o <<".", "0">>,
      LongMajor \o <<".", "1", ".", "0">> }

\* flag.Parse: without -release the tag is not looked at
Flags == { [release |-> TRUE, tag |-> t] : t \in Tags }
         \cup { [release |-> FALSE, tag |-> <<>>] }

\* the dev counter a dev marker document holds, when it is a valid dev.N
\* with N a non-negative integer of any size
DevDocValid(c) ==
    /\ c # Absent
    /\ yamlUnmarshal(c).ok
    /\ LET items == Split(yamlUnmarshal(c).version)
       IN  /\ Len(items) = 2
           /\ items[1] = <<"d", "e", "v">>
           /\ items[2] # <<>>
           /\ \A i \in 1..Len(items[2]) : IsDigit(items[2][i])

DevDocN(c) ==
    LET ds == Split(yamlUnmarshal(c).version)[2]
    IN  IntOf(FALSE, StripZeros([i \in 1..Len(ds) |-> DigitVal(ds[i])]))

----------------------------------------------------------------------------
(* The state machine *)

Init ==
    /\ devFile \in InitDevFiles
    /\ newFile \in InitNewFiles
    /\ \E f \in Flags : release = f.release /\ tag = f.tag
    /\ pc = "main"
    /\ caller = "none"
    /\ byFile = <<>>
    /\ version = <<>>
    /\ buf = <<>>
    /\ handles = {}
    /\ result = "none"
    /\ errKind = "none"
    /\ failedAt = "none"
    /\ ioFailed = FALSE
    /\ startDev = devFile
    /\ startNew = newFile
    /\ wrote = {}
    /\ newVal = NoVal
    /\ devWritten = NoVal
    /\ devReset = FALSE
    /\ runs = 1
    /\ allOk = TRUE
    /\ expect = IF DevDocValid(devFile) THEN DevDocN(devFile) ELSE NoVal

hist == <<startDev, startNew, runs>>

\* an error return that reaches main: a diagnostic is printed, main returns
Fail(step, kind) ==
    /\ pc' = "done"
    /\ result' = "error"
    /\ errKind' = kind
    /\ failedAt' = step
    /\ ioFailed' = (ioFailed \/ kind = "io")
    /\ allOk' = FALSE
    /\ UNCHANGED expect

\* main prints Succeeded
Succeed ==
    /\ pc' = "done"
    /\ result' = "Succeeded"
    /\ allOk' = allOk
    /\ expect' = IF expect = NoVal THEN NoVal
                 ELSE IF release THEN One ELSE MathInc(expect)
    /\ UNCHANGED <<errKind, failedAt, ioFailed>>

\* main, -release without -tag
MainUsage ==
    /\ pc = "main" /\ release /\ tag = <<>>
    /\ pc' = "done"
    /\ result' = "usage"
    /\ allOk' = FALSE
    /\ UNCHANGED <<devFile, newFile, release, tag, caller, byFile, version, buf,
                   handles, errKind, failedAt, ioFailed, wrote, newVal,
                   devWritten, devReset, expect, hist>>

\* main, -release -tag T: resetDev calls saveDev(DefaultTagVersion)
MainRelease ==
    /\ pc = "main" /\ release /\ tag # <<>>
    /\ caller' = "resetDev"
    /\ version' = DefaultTagVersion
    /\ newVal' = One
    /\ pc' = "saveDev_open"
    /\ UNCHANGED <<devFile, newFile, release, tag, byFile, buf, handles, result,
                   errKind, failedAt, ioFailed, wrote, devWritten, devReset,
                   allOk, expect, hist>>

\* main without -release: bumpDev calls getTag
MainRC ==
    /\ pc = "main" /\ ~release
    /\ caller' = "bumpDev"
    /\ pc' = "getTag_open"
    /\ UNCHANGED <<devFile, newFile, release, tag, byFile, version, buf, handles,
                   result, errKind, failedAt, ioFailed, wrote, newVal,
                   devWritten, devReset, allOk, expect, hist>>

\* getTag opening the dev marker with O_CREATE, as the writers do
GetTagOpenCreate ==
    /\ pc = "getTag_open"
    /\ \E ok \in BOOLEAN :
        IF ok
        THEN /\ devFile' = IF devFile = Absent THEN <<>> ELSE devFile
             /\ handles' = handles \cup {"fileRead"}
             /\ pc' = "getTag_read"
             /\ UNCHANGED <<result, errKind, failedAt, ioFailed, allOk, expect>>
        ELSE /\ Fail("getTag_open", "io")
             /\ UNCHANGED <<devFile, handles>>
    /\ UNCHANGED <<newFile, release, tag, caller, byFile, version, buf,
                   wrote, newVal, devWritten, devReset, hist>>

\* getTag: os.OpenFile(DevFullPathFilename, O_RDONLY)
GetTagOpen ==
    /\ pc = "getTag_open"
    /\ \E ok \in BOOLEAN :
        /\ ok => devFile # Absent
        /\ IF ok
           THEN /\ handles' = handles \cup {"fileRead"}
                /\ pc' = "getTag_read"
                /\ UNCHANGED <<result, errKind, failedAt, ioFailed, allOk, expect>>
           ELSE /\ Fail("getTag_open", "io")
                /\ UNCHANGED handles
    /\ UNCHANGED <<devFile, newFile, release, tag, caller, byFile, version, buf,
                   wrote, newVal, devWritten, devReset, hist>>

\* getTag: io.ReadAll; fileRead is not closed on either path
GetTagRead ==
    /\ pc = "getTag_read"
    /\ \E ok \in BOOLEAN :
        IF ok
        THEN /\ byFile' = devFile
             /\ pc' = "getTag_unmarshal"
             /\ UNCHANGED <<result, errKind, failedAt, ioFailed, allOk, expect>>
        ELSE /\ Fail("getTag_read", "io")
             /\ UNCHANGED byFile
    /\ UNCHANGED <<devFile, newFile, release, tag, caller, version, buf, handles,
                   wrote, newVal, devWritten, devReset, hist>>

\* getTag: yaml.Unmarshal and the return of version.Version
GetTagUnmarshal ==
    /\ pc = "getTag_unmarshal"
    /\ LET u == yamlUnmarshal(byFile)
       IN  IF u.ok
           THEN /\ version' = u.version
                /\ pc' = "incrementDev"
                /\ UNCHANGED <<result, errKind, failedAt, ioFailed, allOk, expect>>
           ELSE /\ Fail("getTag_unmarshal", "yaml")
                /\ UNCHANGED version
    /\ UNCHANGED <<devFile, newFile, release, tag, caller, byFile, buf, handles,
                   wrote, newVal, devWritten, devReset, hist>>

\* bumpDev: incrementDev(version)
BumpDevIncrement ==
    /\ pc = "incrementDev"
    /\ LET r == incrementDev(version)
       IN  IF r.ok
           THEN /\ version' = r.str
                /\ newVal' = r.val
                /\ pc' = "saveDev_open"
                /\ UNCHANGED <<result, errKind, failedAt, ioFailed, allOk, expect>>
           ELSE /\ Fail("incrementDev", "InvalidVersionFormat")
                /\ UNCHANGED <<version, newVal>>
    /\ UNCHANGED <<devFile, newFile, release, tag, caller, byFile, buf, handles,
                   wrote, devWritten, devReset, hist>>

\* what a failed write of data has put in the file: a proper prefix of data,
\* of which the model takes nothing, half of it and all but the last byte
PartialWrites(data) ==
    { SubSeq(data, 1, k) : k \in {0, Len(data) \div 2, Len(data) - 1} }

\* saveDev: yaml.Marshal, then os.OpenFile(DevFullPathFilename,
\* O_RDWR|O_CREATE|O_TRUNC), which empties the file
SaveDevOpen ==
    /\ pc = "saveDev_open"
    /\ \E ok \in BOOLEAN :
        IF ok
        THEN /\ devFile' = <<>>
             /\ devWritten' = NoVal
             /\ handles' = handles \cup {"devWrite"}
             /\ wrote' = wrote \cup {DevFullPathFilename}
             /\ pc' = "saveDev_write"
             /\ UNCHANGED <<result, errKind, failedAt, ioFailed, allOk, expect>>
        ELSE /\ Fail("saveDev_open", "io")
             /\ UNCHANGED <<devFile, devWritten, handles, wrote>>
    /\ UNCHANGED <<newFile, release, tag, caller, byFile, version, buf, newVal,
                   devReset, hist>>

\* saveDev: datawriter.Write(byRaw).  bufio copies data that fits into its
\* buffer and cannot fail; longer data goes straight to the file, and an
\* error there returns with fileWrite still open
SaveDevWrite ==
    /\ pc = "saveDev_write"
    /\ LET data == SaveDevData(version)
       IN  IF Len(data) <= BufSize
           THEN /\ buf' = data
                /\ pc' = "saveDev_flush"
                /\ UNCHANGED <<devFile, devWritten, result, errKind, failedAt,
                               ioFailed, allOk, expect>>
           ELSE \E ok \in BOOLEAN :
                IF ok
                THEN /\ devFile' = devFile \o data
                     /\ devWritten' = newVal
                     /\ pc' = "saveDev_flush"
                     /\ UNCHANGED <<buf, result, errKind, failedAt, ioFailed,
                                    allOk, expect>>
                ELSE /\ devFile' \in { devFile \o w : w \in PartialWrites(data) }
                     /\ Fail("saveDev_write", "io")
                     /\ UNCHANGED <<buf, devWritten>>
    /\ UNCHANGED <<newFile, release, tag, caller, byFile, version, handles,
                   wrote, newVal, devReset, hist>>

\* saveDev: datawriter.Flush(), whose error is dropped
SaveDevFlush ==
    /\ pc = "saveDev_flush"
    /\ IF buf = <<>>
       THEN UNCHANGED <<devFile, devWritten, ioFailed>>
       ELSE \E ok \in BOOLEAN :
            IF ok
            THEN /\ devFile' = devFile \o buf
                 /\ devWritten' = newVal
                 /\ UNCHANGED ioFailed
            ELSE /\ devFile' \in { devFile \o w : w \in PartialWrites(buf) }
                 /\ ioFailed' = TRUE
                 /\ UNCHANGED devWritten
    /\ buf' = <<>>
    /\ pc' = "saveDev_close"
    /\ UNCHANGED <<newFile, release, tag, caller, byFile, version, handles,
                   result, errKind, failedAt, wrote, newVal, devReset, allOk,
                   expect, hist>>

\* saveDev: fileWrite.Close() and the return to resetDev or bumpDev, and
\* from bumpDev to main
SaveDevClose ==
    /\ pc = "saveDev_close"
    /\ handles' = handles \ {"devWrite"}
    /\ \E ok \in BOOLEAN :
        IF ~ok
        THEN /\ Fail("saveDev_close", "io")
             /\ UNCHANGED devReset
        ELSE IF caller = "resetDev"
        THEN /\ devReset' = TRUE
             /\ pc' = "incrementRelease"
             /\ UNCHANGED <<result, errKind, failedAt, ioFailed, allOk, expect>>
        ELSE /\ Succeed
             /\ UNCHANGED devReset
    /\ UNCHANGED <<devFile, newFile, release, tag, caller, byFile, version, buf,
                   wrote, newVal, devWritten, hist>>

\* newRelease: incrementRelease(current)
NewReleaseIncrement ==
    /\ pc = "incrementRelease"
    /\ LET r == incrementRelease(tag)
       IN  IF r.ok
           THEN /\ version' = r.str
                /\ newVal' = r.val
                /\ pc' = "saveRelease_open"
                /\ UNCHANGED <<result, errKind, failedAt, ioFailed, allOk, expect>>
           ELSE /\ Fail("incrementRelease", "InvalidVersionFormat")
                /\ UNCHANGED <<version, newVal>>
    /\ UNCHANGED <<devFile, newFile, release, tag, caller, byFile, buf, handles,
                   wrote, devWritten, devReset, hist>>

\* saveRelease putting the dev marker back when it cannot open its file
SaveReleaseOpenRollback ==
    /\ pc = "saveRelease_open"
    /\ \E ok \in BOOLEAN :
        IF ok
        THEN /\ newFile' = <<>>
             /\ handles' = handles \cup {"newWrite"}
             /\ wrote' = wrote \cup {NewVersionFullPathFilename}
             /\ pc' = "saveRelease_write"
             /\ UNCHANGED <<devFile, result, errKind, failedAt, ioFailed, allOk,
                            expect>>
        ELSE /\ Fail("saveRelease_open", "io")
             /\ devFile' = startDev
             /\ UNCHANGED <<newFile, handles, wrote>>
    /\ UNCHANGED <<release, tag, caller, byFile, version, buf, newVal,
                   devWritten, devReset, hist>>

\* saveRelease: os.OpenFile(NewVersionFullPathFilename,
\* O_RDWR|O_CREATE|O_TRUNC), which empties the file
SaveReleaseOpen ==
    /\ pc = "saveRelease_open"
    /\ \E ok \in BOOLEAN :
        IF ok
        THEN /\ newFile' = <<>>
             /\ handles' = handles \cup {"newWrite"}
             /\ wrote' = wrote \cup {NewVersionFullPathFilename}
             /\ pc' = "saveRelease_write"
             /\ UNCHANGED <<result, errKind, failedAt, ioFailed, allOk, expect>>
        ELSE /\ Fail("saveRelease_open", "io")
             /\ UNCHANGED <<newFile, handles, wrote>>
    /\ UNCHANGED <<devFile, release, tag, caller, byFile, version, buf, newVal,
                   devWritten, devReset, hist>>

\* saveRelease: datawriter.Write([]byte(version)), as in saveDev
SaveReleaseWrite ==
    /\ pc = "saveRelease_write"
    /\ LET data == SaveReleaseData(version)
       IN  IF Len(data) <= BufSize
           THEN /\ buf' = data
                /\ pc' = "saveRelease_flush"
                /\ UNCHANGED <<newFile, result, errKind, failedAt, ioFailed,
                               allOk, expect>>
           ELSE \E ok \in BOOLEAN :
                IF ok
                THEN /\ newFile' = newFile \o data
                     /\ pc' = "saveRelease_flush"
                     /\ UNCHANGED <<buf, result, errKind, failedAt, ioFailed,
                                    allOk, expect>>
                ELSE /\ newFile' \in { newFile \o w : w \in PartialWrites(data) }
                     /\ Fail("saveRelease_write", "io")
                     /\ UNCHANGED buf
    /\ UNCHANGED <<devFile, release, tag, caller, byFile, version, handles,
                   wrote, newVal, devWritten, devReset, hist>>

\* saveRelease: datawriter.Flush(), whose error is dropped
SaveReleaseFlush ==
    /\ pc = "saveRelease_flush"
    /\ IF buf = <<>>
       THEN UNCHANGED <<newFile, ioFailed>>
       ELSE \E ok \in BOOLEAN :
            IF ok
            THEN /\ newFile' = newFile \o buf
                 /\ UNCHANGED ioFailed
            ELSE /\ newFile' \in { newFile \o w : w \in PartialWrites(buf) }
                 /\ ioFailed' = TRUE
    /\ buf' = <<>>
    /\ pc' = "saveRelease_close"
    /\ UNCHANGED <<devFile, release, tag, caller, byFile, version, handles,
                   result, errKind, failedAt, wrote, newVal, devWritten,
                   devReset, allOk, expect, hist>>

\* saveRelease: fileWrite.Close() and the return through newRelease to main
SaveReleaseClose ==
    /\ pc = "saveRelease_close"
    /\ handles' = handles \ {"newWrite"}
    /\ \E ok \in BOOLEAN :
        IF ok THEN Succeed ELSE Fail("saveRelease_close", "io")
    /\ UNCHANGED <<devFile, newFile, release, tag, caller, byFile, version, buf,
                   wrote, newVal, devWritten, devReset, hist>>

\* the process exits, which closes what it left open, and the program is
\* run again on the files as they are
NextInvocation ==
    /\ pc = "done"
    /\ runs < MaxRuns
    /\ \E f \in Flags : release' = f.release /\ tag' = f.tag
    /\ pc' = "main"
    /\ caller' = "none"
    /\ byFile' = <<>>
    /\ version' = <<>>
    /\ buf' = <<>>
    /\ handles' = {}
    /\ result' = "none"
    /\ errKind' = "none"
    /\ failedAt' = "none"
    /\ ioFailed' = FALSE
    /\ startDev' = devFile
    /\ startNew' = newFile
    /\ wrote' = {}
    /\ newVal' = NoVal
    /\ devReset' = FALSE
    /\ runs' = runs + 1
    /\ UNCHANGED <<devFile, newFile, devWritten, allOk, expect>>

Next ==
    \/ MainUsage
    \/ MainRelease
    \/ MainRC
    \/ GetTagOpen
    \/ GetTagRead
    \/ GetTagUnmarshal
    \/ BumpDevIncrement
    \/ SaveDevOpen
    \/ SaveDevWrite
    \/ SaveDevFlush
    \/ SaveDevClose
    \/ NewReleaseIncrement
    \/ SaveReleaseOpen
    \/ SaveReleaseWrite
    \/ SaveReleaseFlush
    \/ SaveReleaseClose
    \/ NextInvocation

Spec == Init /\ [][Next]_vars

----------------------------------------------------------------------------
(* What the claims speak of *)

Numeric(f) == f # <<>> /\ \A i \in 1..Len(f) : IsDigit(f[i])

\* a release tag MAJOR.MINOR.PATCH of three non-negative integers
ReleaseTagValid(t) ==
    /\ Len(Split(t)) = 3
    /\ \A k \in 1..3 : Numeric(Split(t)[k])

\* wrong number of fields, or a field that is not a number
ReleaseTagMalformed(t) == ~ReleaseTagValid(t)

DevTagMalformed(t) == Len(Split(t)) # 2 \/ ~Numeric(Split(t)[2])

NatOf(f) == IntOf(FALSE, StripZeros([i \in 1..Len(f) |-> DigitVal(f[i])]))

\* MAJOR.(MINOR+1).0 of a valid release tag
ReleaseSuccessor(t) ==
    Split(t)[1] \o <<".">> \o FormatInt(MathInc(NatOf(Split(t)[2]))) \o <<".", "0">>

\* the dev marker document of dev.v
DevDoc(v) == yamlMarshal(Dev(FormatInt(v)))

\* the tag this invocation is to increment is malformed
TagMalformed ==
    IF release
    THEN tag # <<>> /\ ReleaseTagMalformed(tag)
    ELSE /\ startDev # Absent
         /\ yamlUnmarshal(startDev).ok
         /\ DevTagMalformed(yamlUnmarshal(startDev).version)

\* the dev-shape parser applied to a file content: the number it finds
DevParse(c) ==
    LET u == yamlUnmarshal(c)
        items == Split(u.version)
    IN  IF c = Absent \/ ~u.ok \/ Len(items) # NumberOfSeparatorsInDevTag
        THEN NoVal
        ELSE Atoi(items[2]).val

SaveReleaseFailures == {"saveRelease_open", "saveRelease_write", "saveRelease_close"}

----------------------------------------------------------------------------
(* The claims *)

\* C1: when the tag to be incremented is malformed, the invocation reports
\* InvalidVersionFormat (unless an I/O step failed first) and neither marker
\* file is created, truncated or modified, in release mode as in
\* release-candidate mode.
C1_MalformedNoWrite ==
    TagMalformed =>
        /\ (pc = "done" /\ ~ioFailed) => errKind = "InvalidVersionFormat"
        /\ devFile = startDev
        /\ newFile = startNew
        /\ wrote = {}

\* C2: a release-candidate cut that printed Succeeded on a dev marker holding
\* a valid dev.N leaves the dev marker holding exactly the document of
\* dev.(N+1).
C2_DevIncrement ==
    (~release /\ result = "Succeeded" /\ DevDocValid(startDev)) =>
        devFile = DevDoc(MathInc(DevDocN(startDev)))

\* C3: for a valid release tag MAJOR.MINOR.PATCH, what incrementRelease
\* returns is MAJOR.(MINOR+1).0.
C3_ReleaseIncrement ==
    (release /\ ReleaseTagValid(tag)) =>
        /\ failedAt # "incrementRelease"
        /\ pc \in {"saveRelease_open", "saveRelease_write", "saveRelease_flush",
                   "saveRelease_close"} => version = ReleaseSuccessor(tag)

\* C4: in a release cut with a valid tag the dev marker holds dev.1 from
\* before the new-version marker is opened for writing, and when the cut
\* prints Succeeded the dev marker holds dev.1 and the new-version marker
\* holds MAJOR.(MINOR+1).0.
C4_ResetThenRelease ==
    (release /\ ReleaseTagValid(tag)) =>
        /\ NewVersionFullPathFilename \in wrote => devFile = DevDoc(One)
        /\ result = "Succeeded" =>
              /\ devFile = DevDoc(One)
              /\ newFile = ReleaseSuccessor(tag)

\* C5: in a release-candidate cut, a dev marker that is missing makes the
\* open fail, and a failure to open or read it ends the invocation with an
\* I/O error, no file opened for writing and both marker files as they were.
C5_ReadFailureNoWrite ==
    ~release =>
        /\ (startDev = Absent /\ pc \notin {"main", "getTag_open"}) =>
              failedAt = "getTag_open"
        /\ failedAt \in {"getTag_open", "getTag_read"} =>
              /\ pc = "done"
              /\ result = "error"
              /\ errKind = "io"
              /\ wrote = {}
              /\ handles \cap {"devWrite", "newWrite"} = {}
              /\ devFile = startDev
              /\ newFile = startNew

C5_Witness ==
    /\ ~release
    /\ pc = "done"
    /\ failedAt = "getTag_read"
    /\ startDev = DevDoc(NatOf(Str5))
    /\ devFile = startDev

\* C6: an I/O failure ends the invocation at once with an error, and an
\* invocation that printed Succeeded had no I/O failure and left the full
\* intended content in its target files.
C6_SucceededMeansWritten ==
    /\ ioFailed => (pc = "done" /\ result = "error")
    /\ result = "Succeeded" =>
          /\ ~ioFailed
          /\ ~release => devFile = SaveDevData(version)
          /\ release => (devFile = DevDoc(One) /\ newFile = SaveReleaseData(version))

\* C7: once saveDev has written the tag of the int n to the dev marker,
\* reading the file back with getTag and parsing it with the dev-shape
\* parser gives n again.
C7_RoundTrip ==
    devWritten # NoVal =>
        /\ DevParse(devFile) = devWritten
        /\ (pc = "incrementDev" /\ byFile = devFile) =>
              /\ Len(Split(version)) = NumberOfSeparatorsInDevTag
              /\ Atoi(Split(version)[2]).ok
              /\ Atoi(Split(version)[2]).val = devWritten

C7_Witness ==
    /\ runs > 1
    /\ ~release
    /\ pc = "incrementDev"
    /\ byFile = devFile
    /\ devWritten = IntOf(TRUE, MinIntMag)

\* C8: at most one file handle is open at any time, and none is left open
\* when the invocation has ended in an error.
C8_OneHandle ==
    /\ Cardinality(handles) <= 1
    /\ result = "error" => handles = {}

\* C9, as stated: when saveRelease fails (open, write or close error) after
\* the dev marker was reset, the invocation ends in error, the dev marker
\* holds dev.1 and the new-version marker does not hold the new version.
C9_NoRollbackOriginal ==
    (release /\ devReset /\ devWritten = One /\ failedAt \in SaveReleaseFailures) =>
        /\ pc = "done"
        /\ result = "error"
        /\ devFile = DevDoc(One)
        /\ newFile # SaveReleaseData(version)

\* C9, amended: when saveRelease fails after the dev marker was reset, the
\* invocation ends in error and the dev marker holds dev.1, its previous
\* value not restored; after an open error the new-version marker is as it
\* was, after a write error it does not hold the new version, and after a
\* close error it may hold the new version in full.
C9_NoRollback ==
    (release /\ devReset /\ devWritten = One /\ failedAt \in SaveReleaseFailures) =>
        /\ pc = "done"
        /\ result = "error"
        /\ devFile = DevDoc(One)
        /\ failedAt = "saveRelease_open" => newFile = startNew
        /\ failedAt = "saveRelease_write" => newFile # SaveReleaseData(version)

C9_Witness ==
    /\ release
    /\ devReset
    /\ devWritten = One
    /\ failedAt = "saveRelease_open"
    /\ startDev = DevDoc(NatOf(Str5))
    /\ devFile = DevDoc(One)

\* C10: when every invocation so far printed Succeeded and the dev marker
\* first held a valid dev.N, the dev marker holds the document of dev.c with
\* c = 1 + the release-candidate cuts since the last release cut, or N + the
\* release-candidate cuts when there was no release cut; and a
\* release-candidate cut leaves the new-version marker as it was.
C10_DevCounter ==
    /\ (allOk /\ result = "Succeeded" /\ expect # NoVal) => devFile = DevDoc(expect)
    /\ ~release => newFile = startNew

====
